---- MODULE Spec2Model ----
(***************************************************************************)
(* Fitness-Buddy: the recommendation engine of src/lib/aiService.ts        *)
(* (generateWorkoutPlan, generateDietPlan), the onboarding conversation    *)
(* controller of src/components/ConversationalOnboarding.tsx, and the chat *)
(* of ChatInterface with useChatMessages and the fitness-ai-chat function. *)
(*                                                                         *)
(* JavaScript values are tagged records: Undefined, Str(s), Num(n), NaN,   *)
(* Arr(a).  A text is a sequence of string chunks that denotes their       *)
(* concatenation; text typed by the user has one chunk per character.      *)
(***************************************************************************)
EXTENDS Integers, Sequences, FiniteSets, TLC

VARIABLES
    userProfile,        \* aiService: the argument of the engine call
    result,             \* aiService: what the engine call returned or threw
    currentStep,        \* onboarding: 'greeting' | 'structured'
    currentStepIndex,   \* onboarding: the step cursor
    isLoading,          \* onboarding: the processing indicator
    profileData,        \* onboarding: the draft profile
    messages,           \* onboarding: the transcript
    steps,              \* onboarding: the completed flag of every step
    timers,             \* onboarding: pending setTimeout callbacks, in due order
    pendingInsert,      \* onboarding: the profiles insert awaiting its response
    inserts,            \* persistence collaborator: insert calls received
    onCompleteCalls,    \* embedding UI: number of onComplete signals received
    toast,              \* onboarding: title of the latest toast() notification
    greetingsSent,      \* number of messages typed in the greeting state
    now,                \* the last millisecond Date.now() returned
    chatHistory,        \* chat: the local message list of useChatMessages
    chatRows,           \* persistence collaborator: the user's chat_messages rows
    chatIsLoading,      \* chat: the processing indicator of ChatInterface
    chatPc,             \* chat: the await at which sendMessage is suspended
    chatCall,           \* chat: the locals of the running sendMessage
    chatEscaped,        \* chat: an exception has propagated out of sendMessage
    chatToast,          \* chat: title of the latest toast() notification
    chatSends,          \* number of messages sent
    chatClears,         \* number of clicks on Clear Chat
    chatFetch,          \* chat: the fetchMessages request of the mount effect
    activeView,         \* Index: the view shown, 'chat' | 'profile'
    indexProfile,       \* Index: useUserProfile, "loading" | "null" | "row"
    setupProfile,       \* ProfileSetup: useUserProfile, or "unmounted"
    setupCall,          \* ProfileSetup: the save awaiting its response
    dbProfile,          \* persistence collaborator: the user has a profiles row
    profileSaved,       \* a profile save of this user has succeeded
    visits              \* number of times the profile view was opened

engineVars == <<userProfile, result>>
onboardingVars == <<currentStep, currentStepIndex, isLoading, profileData,
                    messages, steps, timers, pendingInsert, inserts,
                    onCompleteCalls, toast, greetingsSent, now>>
chatVars == <<chatHistory, chatRows, chatIsLoading, chatPc, chatCall, chatEscaped,
              chatToast, chatSends, chatClears, chatFetch>>
indexVars == <<activeView, indexProfile, setupProfile, setupCall, dbProfile,
               profileSaved, visits>>
vars == <<userProfile, result, currentStep, currentStepIndex, isLoading,
          profileData, messages, steps, timers, pendingInsert, inserts,
          onCompleteCalls, toast, greetingsSent, now,
          chatHistory, chatRows, chatIsLoading, chatPc, chatCall, chatEscaped,
          chatToast, chatSends, chatClears, chatFetch,
          activeView, indexProfile, setupProfile, setupCall, dbProfile,
          profileSaved, visits>>

(***************************************************************************)
(* JavaScript values                                                       *)
(***************************************************************************)
Undefined == [t |-> "undefined"]
NaN == [t |-> "NaN"]
Num(n) == [t |-> "number", n |-> n]
Str(s) == [t |-> "string", s |-> s]
Arr(a) == [t |-> "array", a |-> a]
Bool(b) == [t |-> "boolean", b |-> b]
Obj(o) == [t |-> "object", o |-> o]

\* ToBoolean: undefined, false, NaN, 0 and '' are falsy.
Truthy(v) ==
    CASE v.t = "undefined" -> FALSE
      [] v.t = "boolean" -> v.b
      [] v.t = "NaN" -> FALSE
      [] v.t = "number" -> v.n # 0
      [] v.t = "string" -> v.s # ""
      [] OTHER -> TRUE

\* a || b
OrElse(a, b) == IF Truthy(a) THEN a ELSE b

Range(s) == {s[i] : i \in 1..Len(s)}

\* Math.round(num / den) for den > 0: the nearest integer, a tie goes up.
\* On every product the engine forms from non-negative calories (BMR*m,
\* D*0.8, D*1.1, T*0.3/4, T*0.4/4, T*0.3/9) the IEEE-754 double result rounds
\* to the same integer as the exact quotient.
MathRound(num, den) == (2 * num + den) \div (2 * den)

\* the TypeError raised by a property access or a call on undefined
TypeError == [t |-> "TypeError"]

(***************************************************************************)
(* aiService.ts: generateWorkoutPlan                                       *)
(***************************************************************************)
beginner_strength ==
    [exercises |-> <<
        [name |-> "Bodyweight Squats", sets |-> 3, reps |-> "8-12", rest |-> "60s"],
        [name |-> "Modified Push-ups", sets |-> 3, reps |-> "5-10", rest |-> "60s"],
        [name |-> "Plank Hold", sets |-> 3, reps |-> "15-30s", rest |-> "45s"],
        [name |-> "Glute Bridges", sets |-> 3, reps |-> "10-15", rest |-> "45s"],
        [name |-> "Wall Sits", sets |-> 2, reps |-> "15-30s", rest |-> "60s"]>>,
     duration |-> "20-25 minutes"]

beginner_cardio ==
    [exercises |-> <<
        [name |-> "Brisk Walking", sets |-> 1, reps |-> "15-20 min", rest |-> "N/A"],
        [name |-> "Marching in Place", sets |-> 3, reps |-> "1 min", rest |-> "30s"],
        [name |-> "Step-ups (using stairs)", sets |-> 3, reps |-> "30s", rest |-> "30s"],
        [name |-> "Arm Circles", sets |-> 2, reps |-> "30s each direction", rest |-> "15s"]>>,
     duration |-> "15-20 minutes"]

intermediate_strength ==
    [exercises |-> <<
        [name |-> "Goblet Squats", sets |-> 4, reps |-> "12-15", rest |-> "90s"],
        [name |-> "Push-ups", sets |-> 3, reps |-> "10-15", rest |-> "60s"],
        [name |-> "Dumbbell Rows", sets |-> 3, reps |-> "12-15 each arm", rest |-> "60s"],
        [name |-> "Lunges", sets |-> 3, reps |-> "10 each leg", rest |-> "60s"],
        [name |-> "Plank to Downward Dog", sets |-> 3, reps |-> "8-10", rest |-> "45s"]>>,
     duration |-> "30-35 minutes"]

intermediate_cardio ==
    [exercises |-> <<
        [name |-> "Jump Rope", sets |-> 4, reps |-> "45s", rest |-> "15s"],
        [name |-> "High Knees", sets |-> 3, reps |-> "30s", rest |-> "30s"],
        [name |-> "Burpees", sets |-> 3, reps |-> "5-8", rest |-> "60s"],
        [name |-> "Mountain Climbers", sets |-> 3, reps |-> "30s", rest |-> "30s"]>>,
     duration |-> "25-30 minutes"]

advanced_strength ==
    [exercises |-> <<
        [name |-> "Barbell Squats", sets |-> 4, reps |-> "8-12", rest |-> "2-3min"],
        [name |-> "Deadlifts", sets |-> 4, reps |-> "6-10", rest |-> "2-3min"],
        [name |-> "Pull-ups/Chin-ups", sets |-> 3, reps |-> "8-12", rest |-> "90s"],
        [name |-> "Overhead Press", sets |-> 3, reps |-> "8-12", rest |-> "90s"],
        [name |-> "Weighted Lunges", sets |-> 3, reps |-> "10-12 each leg", rest |-> "90s"]>>,
     duration |-> "45-60 minutes"]

advanced_cardio ==
    [exercises |-> <<
        [name |-> "HIIT Sprints", sets |-> 6, reps |-> "30s sprint, 90s walk", rest |-> "N/A"],
        [name |-> "Box Jumps", sets |-> 4, reps |-> "8-10", rest |-> "90s"],
        [name |-> "Kettlebell Swings", sets |-> 4, reps |-> "20-25", rest |-> "60s"],
        [name |-> "Battle Ropes", sets |-> 3, reps |-> "30s", rest |-> "90s"]>>,
     duration |-> "25-35 minutes"]


workoutPlans ==
    [beginner |-> [strength |-> beginner_strength, cardio |-> beginner_cardio],
     intermediate |-> [strength |-> intermediate_strength, cardio |-> intermediate_cardio],
     advanced |-> [strength |-> advanced_strength, cardio |-> advanced_cardio]]

\* goals.includes(tag) without the optional chaining
OptIncludes_noOptionalChain(goals, tag) ==
    IF goals.t = "undefined" THEN TypeError
    ELSE Bool(tag \in Range(goals.a))

\* goals?.includes(tag): undefined when goals is missing
OptIncludes(goals, tag) ==
    IF goals.t = "undefined" THEN Undefined
    ELSE Bool(tag \in Range(goals.a))

\* goals?.[0] === 'weight_loss': only the first goal decides
goal_firstOnly(goals) ==
    IF goals.t = "array" /\ goals.a # <<>> /\ goals.a[1] = "weight_loss"
    THEN Str("cardio") ELSE Str("strength")

\* const goal = goals?.includes('weight_loss') ? 'cardio' : 'strength'
goal(goals) ==
    LET inc == OptIncludes(goals, "weight_loss")
    IN  IF inc = TypeError THEN TypeError
        ELSE IF Truthy(inc) THEN Str("cardio") ELSE Str("strength")

\* (workoutPlans[level] || workoutPlans.beginner)[goal]: an unknown level keeps the track
PlanLookup_defaultLevel(level, g) ==
    IF level.t = "string" /\ level.s \in DOMAIN workoutPlans
    THEN Obj(workoutPlans[level.s][g.s])
    ELSE Obj(workoutPlans.beginner[g.s])

\* workoutPlans[level]?.[goal]
PlanLookup(level, g) ==
    IF level.t = "string" /\ level.s \in DOMAIN workoutPlans
    THEN Obj(workoutPlans[level.s][g.s])
    ELSE Undefined

generateWorkoutPlan(p) ==
    LET level == OrElse(p.fitnessLevel, Str("beginner"))
        g == goal(p.goals)
        found == IF g = TypeError THEN TypeError ELSE PlanLookup(level, g)
    IN  IF found = TypeError
        THEN [threw |-> TRUE, value |-> Undefined]
        ELSE [threw |-> FALSE,
              value |-> OrElse(found, Obj(workoutPlans.beginner.strength))]

(***************************************************************************)
(* aiService.ts: generateDietPlan                                          *)
(***************************************************************************)
IsNumber(v) == v.t = "number"

\* The BMR in quarters of a kcal (6.25 * height has a fraction of k/4):
\* 4 * (10*weight + 6.25*height - 5*age + 5), or ... - 161.
calculateBMR(weight, height, age, gender) ==
    IF ~(IsNumber(weight) /\ IsNumber(height) /\ IsNumber(age)) THEN NaN
    ELSE IF gender = Str("male")
         THEN Num(40 * weight.n + 25 * height.n - 20 * age.n + 4 * 5)
         ELSE Num(40 * weight.n + 25 * height.n - 20 * age.n - 4 * 161)

\* the multipliers in thousandths
activityMultipliers ==
    [sedentary |-> 1200, light |-> 1375, moderate |-> 1550,
     active |-> 1725, very_active |-> 1900]

\* activityMultipliers[activityLevel] || 1.2: the default is the lowest tier
Multiplier_defaultSedentary(activityLevel) ==
    IF activityLevel.t = "string" /\ activityLevel.s \in DOMAIN activityMultipliers
    THEN activityMultipliers[activityLevel.s]
    ELSE 1200

\* activityMultipliers[activityLevel] || 1.375, in thousandths
Multiplier(activityLevel) ==
    IF activityLevel.t = "string" /\ activityLevel.s \in DOMAIN activityMultipliers
    THEN activityMultipliers[activityLevel.s]
    ELSE 1375

\* Math.floor(bmr * multiplier)
DailyCalories_floor(bmr, mult) ==
    IF bmr = NaN THEN NaN ELSE Num((bmr.n * mult) \div (4 * 1000))

\* Math.round(bmr * multiplier)
DailyCalories(bmr, mult) ==
    IF bmr = NaN THEN NaN ELSE Num(MathRound(bmr.n * mult, 4 * 1000))

\* the goal adjustment with muscle_gain tested before weight_loss
TargetCalories_muscleFirst(dailyCalories, goals) ==
    LET wl == OptIncludes(goals, "weight_loss")
        mg == OptIncludes(goals, "muscle_gain")
    IN  IF mg = TypeError THEN TypeError
        ELSE IF Truthy(mg)
             THEN IF dailyCalories = NaN THEN NaN
                  ELSE Num(MathRound(dailyCalories.n * 11, 10))
        ELSE IF Truthy(wl)
             THEN IF dailyCalories = NaN THEN NaN
                  ELSE Num(MathRound(dailyCalories.n * 8, 10))
        ELSE dailyCalories

\* the goal adjustment of lines 255-260
TargetCalories(dailyCalories, goals) ==
    LET wl == OptIncludes(goals, "weight_loss")
        mg == OptIncludes(goals, "muscle_gain")
    IN  IF wl = TypeError THEN TypeError
        ELSE IF Truthy(wl)
             THEN IF dailyCalories = NaN THEN NaN
                  ELSE Num(MathRound(dailyCalories.n * 8, 10))
        ELSE IF mg = TypeError THEN TypeError
        ELSE IF Truthy(mg)
             THEN IF dailyCalories = NaN THEN NaN
                  ELSE Num(MathRound(dailyCalories.n * 11, 10))
        ELSE dailyCalories

\* Math.round((targetCalories * share) / kcalPerGram), share in tenths
MacroGrams(targetCalories, share, kcalPerGram) ==
    IF targetCalories = NaN THEN NaN
    ELSE Num(MathRound(targetCalories.n * share, 10 * kcalPerGram))

\* the fats share divided by 4 kcal per gram like the other two
Macros_fatsAt4(targetCalories) ==
    [protein |-> MacroGrams(targetCalories, 3, 4),
     carbs |-> MacroGrams(targetCalories, 4, 4),
     fats |-> MacroGrams(targetCalories, 3, 4)]

\* the macro distribution of lines 262-265
Macros(targetCalories) ==
    [protein |-> MacroGrams(targetCalories, 3, 4),
     carbs |-> MacroGrams(targetCalories, 4, 4),
     fats |-> MacroGrams(targetCalories, 3, 9)]

generateDietPlan(p) ==
    LET bmr == calculateBMR(p.weight, p.height, p.age, OrElse(p.gender, Str("male")))
        dailyCalories == DailyCalories(bmr, Multiplier(p.activityLevel))
        targetCalories == TargetCalories(dailyCalories, p.goals)
    IN  IF targetCalories = TypeError
        THEN [threw |-> TRUE, value |-> Undefined]
        ELSE [threw |-> FALSE,
              value |-> Obj([targetCalories |-> targetCalories,
                             macros |-> Macros(targetCalories)])]

(***************************************************************************)
(* The profiles the engine is called with                                  *)
(***************************************************************************)
WeightSpan == 1
HeightSpan == 2
AgeSpan == 1

FitnessLevels ==
    {Undefined, Str(""), Str("beginner"), Str("intermediate"), Str("advanced"),
     Str("expert")}
GoalLists ==
    {Undefined, Arr(<<>>), Arr(<<"weight_loss">>), Arr(<<"muscle_gain">>),
     Arr(<<"weight_loss", "muscle_gain">>), Arr(<<"muscle_gain", "weight_loss">>),
     Arr(<<"endurance">>)}
Weights == {Undefined} \cup {Num(n) : n \in 70..(70 + WeightSpan)}
Heights == {Undefined} \cup {Num(n) : n \in 170..(170 + HeightSpan)}
Ages == {Undefined} \cup {Num(n) : n \in 24..(24 + AgeSpan)}
Genders == {Undefined, Str(""), Str("male"), Str("female"), Str("other")}
ActivityLevels ==
    {Undefined, Str("sedentary"), Str("light"), Str("moderate"), Str("active"),
     Str("very_active"), Str("lightly_active"), Str("moderately_active")}

Profiles ==
    [fitnessLevel : FitnessLevels, goals : GoalLists, weight : Weights,
     height : Heights, age : Ages, gender : Genders,
     activityLevel : ActivityLevels]

NoResult == [fn |-> "none", threw |-> FALSE, value |-> Undefined]

(***************************************************************************)
(* Text: String.prototype.trim, toLowerCase, includes on character texts   *)
(***************************************************************************)
\* a string typed by the user, one chunk per character
Txt(c) == [t |-> "text", c |-> c]

IsSpace(ch) == ch = " "

\* String.prototype.trim
Trim(s) ==
    LET keep == {i \in 1..Len(s) : ~IsSpace(s[i])}
    IN  IF keep = {} THEN <<>>
        ELSE LET lo == CHOOSE i \in keep : \A j \in keep : i <= j
                 hi == CHOOSE i \in keep : \A j \in keep : j <= i
             IN  [k \in 1..(hi - lo + 1) |-> s[lo + k - 1]]

UpperToLower ==
    [A |-> "a", B |-> "b", C |-> "c", D |-> "d", E |-> "e", F |-> "f", G |-> "g",
     H |-> "h", I |-> "i", J |-> "j", K |-> "k", L |-> "l", M |-> "m", N |-> "n",
     O |-> "o", P |-> "p", Q |-> "q", R |-> "r", S |-> "s", T |-> "t", U |-> "u",
     V |-> "v", W |-> "w", X |-> "x", Y |-> "y", Z |-> "z"]

\* String.prototype.toLowerCase
ToLowerCase(s) ==
    [i \in 1..Len(s) |-> IF s[i] \in DOMAIN UpperToLower THEN UpperToLower[s[i]] ELSE s[i]]

\* String.prototype.includes: sub occurs in s as a contiguous run
StrIncludes(s, sub) ==
    \E i \in 0..(Len(s) - Len(sub)) : \A j \in 1..Len(sub) : s[i + j] = sub[j]

(***************************************************************************)
(* ConversationalOnboarding.tsx: the step table and the fixed bot texts    *)
(***************************************************************************)
structuredSteps == <<
    [id |-> "height_weight", field |-> "height", type |-> "height_weight",
     question |-> "What's your current weight and height? This helps me calculate your Body Mass Index (BMI) and understand your starting point.",
     options |-> <<>>],
    [id |-> "activity_level", field |-> "activity_level", type |-> "select",
     question |-> "What's your current activity level?",
     options |-> <<[value |-> "sedentary", label |-> "Sedentary"],
                   [value |-> "lightly_active", label |-> "Lightly Active"],
                   [value |-> "moderately_active", label |-> "Moderately Active"],
                   [value |-> "very_active", label |-> "Very Active"]>>],
    [id |-> "daily_diet", field |-> "name", type |-> "input",
     question |-> "What's your typical daily diet like? Knowing your current eating habits helps me suggest appropriate dietary adjustments.",
     options |-> <<>>],
    [id |-> "equipment", field |-> "equipment", type |-> "multiselect",
     question |-> "What kind of exercise equipment do you have access to?",
     options |-> <<[value |-> "gym_membership", label |-> "Gym Membership"],
                   [value |-> "home_gym", label |-> "Home Gym"],
                   [value |-> "bodyweight_only", label |-> "Bodyweight Only"],
                   [value |-> "dumbbells", label |-> "Dumbbells"],
                   [value |-> "resistance_bands", label |-> "Resistance Bands"],
                   [value |-> "cardio_machine", label |-> "Cardio Machines"]>>],
    [id |-> "dietary_restrictions", field |-> "dietary_restrictions", type |-> "multiselect",
     question |-> "Do you have any dietary restrictions or allergies?",
     options |-> <<[value |-> "none", label |-> "No Restrictions"],
                   [value |-> "vegetarian", label |-> "Vegetarian"],
                   [value |-> "vegan", label |-> "Vegan"],
                   [value |-> "gluten_free", label |-> "Gluten Free"],
                   [value |-> "dairy_free", label |-> "Dairy Free"],
                   [value |-> "nut_allergy", label |-> "Nut Allergy"],
                   [value |-> "shellfish_allergy", label |-> "Shellfish Allergy"],
                   [value |-> "other", label |-> "Other"]>>] >>

\* the validation predicate each entry of structuredSteps declares
validation(step, value) ==
    CASE step.id = "height_weight" ->
             /\ value.t = "object"
             /\ Truthy(value.o.height) /\ Truthy(value.o.weight)
      [] step.id = "activity_level" ->
             value \in {Str("sedentary"), Str("lightly_active"),
                        Str("moderately_active"), Str("very_active")}
      [] step.id = "daily_diet" ->
             /\ value.t = "text"
             /\ value.c # <<>> /\ Len(value.c) > 10
      [] OTHER ->
             /\ value.t = "array"
             /\ Len(value.a) > 0

WelcomeText == <<"Hey there! I'm Coach Alex. Excited to help you get fitter and stronger. To get started, I'll need a couple of basics. Just say hello, hi, or hey to begin!">>
ThanksText == <<"Perfect! Thanks for saying hello. Now I need to collect some information to create your personalized fitness plan.">>
RepromptText == <<"Please say hello, hi, or hey to get started with your fitness journey!">>
ClosingText == <<"Awesome, I've got everything I need to build your personalized workout and meal plan! Ready to begin?">>
ApologyText == <<"I encountered an issue saving your profile. Let me try that again.">>

\* useSupabaseAuth(): the signed-in user
user == [id |-> "user-1"]

greetings == <<
    <<"h", "e", "l", "l", "o">>,
    <<"h", "i">>,
    <<"h", "e", "y">>,
    <<"h", "o", "l", "a">>,
    <<"g", "r", "e", "e", "t", "i", "n", "g", "s">>,
    <<"g", "o", "o", "d", " ", "m", "o", "r", "n", "i", "n", "g">>,
    <<"g", "o", "o", "d", " ", "a", "f", "t", "e", "r", "n", "o", "o", "n">>,
    <<"g", "o", "o", "d", " ", "e", "v", "e", "n", "i", "n", "g">> >>

\* greetings.includes(message.toLowerCase()): the whole message is a keyword
detectGreeting_exactMatch(message) ==
    \E k \in 1..Len(greetings) : ToLowerCase(message) = greetings[k]

\* greetings.some(greeting => message.toLowerCase().includes(greeting))
detectGreeting(message) ==
    \E k \in 1..Len(greetings) : StrIncludes(ToLowerCase(message), greetings[k])

(***************************************************************************)
(* What the user types and picks                                           *)
(***************************************************************************)
MaxGreetings == 2
MaxSelected == 2

GreetingInputs == {
    <<"h", "e", "y", " ", "t", "h", "e", "r", "e">>,
    <<"o", "k", " ", "l", "e", "t", "'", "s", " ", "g", "o">>,
    <<"H", "I">>,
    <<" ", " ", " ">>,
    <<"t", "h", "i", "s", " ", "i", "s", " ", "m", "e">> }

DietInputs == {
    <<"r", "i", "c", "e", " ", "b", "e", "a", "n">>,
    <<"r", "i", "c", "e", " ", "b", "e", "a", "n", "s">>,
    <<"r", "i", "c", "e", ",", " ", "b", "e", "a", "n", "s">>,
    <<" ", "r", "i", "c", "e", " ", "b", "e", "a", "n", "s", " ">>,
    <<"o", "a", "t", "s", ";", " ", "e", "g", "g", "s", ";", " ", "f", "i", "s", "h">> }

\* entries of the two number inputs, in tenths, and the unit toggle
HeightWeightInputs ==
    {[unit |-> "metric", height |-> 1700, weight |-> 700],
     [unit |-> "metric", height |-> 400, weight |-> 700],
     [unit |-> "metric", height |-> 1000, weight |-> 300],
     [unit |-> "metric", height |-> 2500, weight |-> 2510],
     [unit |-> "metric", height |-> 1700, weight |-> 0],
     [unit |-> "imperial", height |-> 57, weight |-> 1540],
     [unit |-> "imperial", height |-> 32, weight |-> 1540]}

\* the first k boxes ticked from the top down, or the last k from the bottom up
SelectionInputs(options) ==
    LET n == Len(options)
    IN  {[i \in 1..k |-> options[i].value] : k \in {j \in 1..MaxSelected : j <= n}}
        \cup {[i \in 1..k |-> options[n + 1 - i].value] : k \in {j \in 1..MaxSelected : j <= n}}

(***************************************************************************)
(* ConversationalOnboarding.tsx: the controller                            *)
(***************************************************************************)
NoInsert == [pending |-> FALSE, record |-> <<>>]

\* a pending setTimeout callback with the values its closure captured
Timer(kind, index, data) == [kind |-> kind, index |-> index, profileData |-> data]

\* addMessage: the id is Date.now() as read at time t
addMessage(msgs, t, text, isBot) ==
    Append(msgs, [id |-> t, text |-> text, isBot |-> isBot])

\* The label of an option value, or the value itself (find(...)?.label || v)
LabelOf(options, v) ==
    IF \E i \in 1..Len(options) : options[i].value = v
    THEN options[CHOOSE i \in 1..Len(options) :
                    options[i].value = v
                    /\ \A j \in 1..(i - 1) : options[j].value # v].label
    ELSE v

\* labels.join(', ')
RECURSIVE JoinLabels(_, _)
JoinLabels(options, values) ==
    IF values = <<>> THEN <<>>
    ELSE IF Len(values) = 1 THEN <<LabelOf(options, values[1])>>
    ELSE <<LabelOf(options, values[1]), ", ">> \o JoinLabels(options, Tail(values))

\* displayValue.toString() of handleStructuredStepComplete
DisplayText(step, value) ==
    CASE value.t = "array" -> JoinLabels(step.options, value.a)
      [] value.t = "string" /\ step.options # <<>> -> <<LabelOf(step.options, value.s)>>
      [] value.t = "string" -> <<value.s>>
      [] value.t = "text" -> value.c
      [] value.t = "object" -> <<"[object Object]">>
      [] OTHER -> <<"undefined">>

\* The mount effect has run: the welcome entry with the literal id '1'.
OnboardingInit ==
    /\ currentStep = "greeting"
    /\ currentStepIndex = 0
    /\ isLoading = FALSE
    /\ profileData = <<>>
    /\ messages = <<[id |-> 1, text |-> WelcomeText, isBot |-> TRUE]>>
    /\ steps = [i \in 1..Len(structuredSteps) |-> [completed |-> FALSE]]
    /\ timers = <<>>
    /\ pendingInsert = NoInsert
    /\ inserts = <<>>
    /\ onCompleteCalls = 0
    /\ toast = ""
    /\ greetingsSent = 0
    /\ now = 1

\* InputField.handleSubmit -> handleUserMessage (-> handleGreeting).
\* The handler runs at a later millisecond than every earlier one; its second
\* Date.now() reads the same millisecond or the next.
HandleUserMessage(raw, gap) ==
    LET message == Trim(raw)
        t1 == now + 1
        t2 == t1 + gap
        withUser == addMessage(messages, t1, message, FALSE)
    IN  /\ currentStep = "greeting"
        /\ ~isLoading
        /\ greetingsSent < MaxGreetings
        /\ message # <<>>
        /\ greetingsSent' = greetingsSent + 1
        /\ now' = t2
        /\ IF detectGreeting(message)
           THEN /\ messages' = addMessage(withUser, t2, ThanksText, TRUE)
                /\ currentStep' = "structured"
                /\ timers' = Append(timers, Timer("question0", 0, <<>>))
           ELSE /\ messages' = addMessage(withUser, t2, RepromptText, TRUE)
                /\ UNCHANGED <<currentStep, timers>>
        /\ UNCHANGED <<currentStepIndex, isLoading, profileData, steps,
                       pendingInsert, inserts, onCompleteCalls, toast>>
        /\ UNCHANGED <<engineVars, chatVars, indexVars>>

\* renderInput without the test of currentStructuredStep?.completed
InputShown_ignoresCompleted(type) ==
    /\ currentStep = "structured"
    /\ currentStepIndex < Len(steps)
    /\ structuredSteps[currentStepIndex + 1].type = type
    /\ ~isLoading

\* renderInput shows the widget of the current step
InputShown(type) ==
    /\ currentStep = "structured"
    /\ currentStepIndex < Len(steps)
    /\ ~steps[currentStepIndex + 1].completed
    /\ structuredSteps[currentStepIndex + 1].type = type
    /\ ~isLoading

\* setSteps marking the step after the current one
handleStructuredStepComplete_marksNextStep(value) ==
    LET step == structuredSteps[currentStepIndex + 1]
        t1 == now + 1
    IN  /\ messages' = addMessage(messages, t1, DisplayText(step, value), FALSE)
        /\ now' = t1
        /\ profileData' = (step.field :> value) @@ profileData
        /\ steps' = [i \in 1..Len(steps) |->
                        IF i = currentStepIndex + 2 THEN [completed |-> TRUE] ELSE steps[i]]
        /\ isLoading' = TRUE
        /\ IF currentStepIndex < Len(steps) - 1
           THEN timers' = Append(timers, Timer("next", currentStepIndex, <<>>))
           ELSE timers' = Append(timers, Timer("complete", currentStepIndex, profileData))
        /\ UNCHANGED <<currentStep, currentStepIndex, pendingInsert, inserts,
                       onCompleteCalls, toast, greetingsSent>>
        /\ UNCHANGED <<engineVars, chatVars, indexVars>>

\* the handler leaving the step open: no completed mark, no setIsLoading(true)
handleStructuredStepComplete_leavesStepOpen(value) ==
    LET step == structuredSteps[currentStepIndex + 1]
        t1 == now + 1
    IN  /\ messages' = addMessage(messages, t1, DisplayText(step, value), FALSE)
        /\ now' = t1
        /\ profileData' = (step.field :> value) @@ profileData
        /\ IF currentStepIndex < Len(steps) - 1
           THEN timers' = Append(timers, Timer("next", currentStepIndex, <<>>))
           ELSE timers' = Append(timers, Timer("complete", currentStepIndex, profileData))
        /\ UNCHANGED <<currentStep, currentStepIndex, isLoading, steps, pendingInsert,
                       inserts, onCompleteCalls, toast, greetingsSent>>
        /\ UNCHANGED <<engineVars, chatVars, indexVars>>

\* handleStructuredStepComplete(value), called from the current render
handleStructuredStepComplete(value) ==
    LET step == structuredSteps[currentStepIndex + 1]
        t1 == now + 1
    IN  /\ messages' = addMessage(messages, t1, DisplayText(step, value), FALSE)
        /\ now' = t1
        /\ profileData' = (step.field :> value) @@ profileData
        /\ steps' = [steps EXCEPT ![currentStepIndex + 1].completed = TRUE]
        /\ isLoading' = TRUE
        /\ IF currentStepIndex < Len(steps) - 1
           THEN timers' = Append(timers, Timer("next", currentStepIndex, <<>>))
           ELSE timers' = Append(timers, Timer("complete", currentStepIndex, profileData))
        /\ UNCHANGED <<currentStep, currentStepIndex, pendingInsert, inserts,
                       onCompleteCalls, toast, greetingsSent>>
        /\ UNCHANGED <<engineVars, chatVars, indexVars>>

\* toast({title, ...}) and return: nothing but the notification changes
Reject(title) ==
    /\ toast' = title
    /\ UNCHANGED <<currentStep, currentStepIndex, isLoading, profileData, messages,
                   steps, timers, pendingInsert, inserts, onCompleteCalls,
                   greetingsSent, now>>
    /\ UNCHANGED <<engineVars, chatVars, indexVars>>

\* the entries of HeightWeightBox in metric units, in tenths
HeightCm(in) ==
    IF in.unit = "imperial" THEN 10 * MathRound(in.height * 3048, 1000) ELSE in.height

WeightKg(in) ==
    IF in.unit = "imperial" THEN 10 * MathRound(in.weight * 453592, 10000000) ELSE in.weight

\* the range checks without their lower bounds
HeightWeightSubmit_noLowerBound(in) ==
    /\ InputShown("height_weight")
    /\ in.height > 0 /\ in.weight > 0
    /\ IF HeightCm(in) > 2500
       THEN Reject("Invalid Height")
       ELSE IF WeightKg(in) > 2500
       THEN Reject("Invalid Weight")
       ELSE handleStructuredStepComplete(
                Obj([height |-> Num(HeightCm(in) \div 10), weight |-> Num(WeightKg(in) \div 10)]))

\* HeightWeightBox.handleSubmit; the Continue button needs both entries > 0.
HeightWeightSubmit(in) ==
    /\ InputShown("height_weight")
    /\ in.height > 0 /\ in.weight > 0
    /\ IF HeightCm(in) < 1000 \/ HeightCm(in) > 2500
       THEN Reject("Invalid Height")
       ELSE IF WeightKg(in) < 300 \/ WeightKg(in) > 2500
       THEN Reject("Invalid Weight")
       ELSE handleStructuredStepComplete(
                Obj([height |-> Num(HeightCm(in) \div 10), weight |-> Num(WeightKg(in) \div 10)]))

\* SelectBox: a click on one option button
SelectOption(i) ==
    /\ InputShown("select")
    /\ i \in 1..Len(structuredSteps[currentStepIndex + 1].options)
    /\ handleStructuredStepComplete(Str(structuredSteps[currentStepIndex + 1].options[i].value))

\* handleSubmit testing value.trim().length >= 10, as the button does
InputBoxSubmit_atLeast10(raw) ==
    /\ InputShown("input")
    /\ ~(Len(Trim(raw)) < 10)
    /\ handleStructuredStepComplete(Txt(Trim(raw)))

\* InputBox.handleSubmit; the Continue button needs a trimmed length >= 10
InputBoxSubmit(raw) ==
    /\ InputShown("input")
    /\ ~(Len(Trim(raw)) < 10)
    /\ IF Len(Trim(raw)) > 10
       THEN handleStructuredStepComplete(Txt(Trim(raw)))
       ELSE UNCHANGED vars

\* MultiSelectBox.handleSubmit; the Continue button needs one ticked box
MultiSelectSubmit(selectedValues) ==
    /\ InputShown("multiselect")
    /\ selectedValues \in SelectionInputs(structuredSteps[currentStepIndex + 1].options)
    /\ Len(selectedValues) > 0
    /\ handleStructuredStepComplete(Arr(selectedValues))

\* Math.round(completedSteps / totalSteps) * 100
calculateProgress_roundsTheFraction ==
    LET totalSteps == Len(steps)
        completedSteps == Cardinality({i \in 1..Len(steps) : steps[i].completed})
    IN  MathRound(completedSteps, totalSteps) * 100

\* calculateProgress: Math.round((completedSteps / totalSteps) * 100)
calculateProgress ==
    LET totalSteps == Len(steps)
        completedSteps == Cardinality({i \in 1..Len(steps) : steps[i].completed})
    IN  MathRound(completedSteps * 100, totalSteps)

\* the 500 ms callback of handleGreeting
FirstQuestionTimer ==
    /\ timers # <<>> /\ Head(timers).kind = "question0"
    /\ timers' = Tail(timers)
    /\ messages' = addMessage(messages, now + 1, <<structuredSteps[1].question>>, TRUE)
    /\ now' = now + 1
    /\ UNCHANGED <<currentStep, currentStepIndex, isLoading, profileData, steps,
                   pendingInsert, inserts, onCompleteCalls, toast, greetingsSent>>
    /\ UNCHANGED <<engineVars, chatVars, indexVars>>

\* the callback asking steps[currentStepIndex] again instead of the next step
NextQuestionTimer_sameStep ==
    /\ timers # <<>> /\ Head(timers).kind = "next"
    /\ timers' = Tail(timers)
    /\ messages' = addMessage(messages, now + 1,
                              <<structuredSteps[Head(timers).index + 1].question>>, TRUE)
    /\ now' = now + 1
    /\ currentStepIndex' = currentStepIndex + 1
    /\ isLoading' = FALSE
    /\ UNCHANGED <<currentStep, profileData, steps, pendingInsert, inserts,
                   onCompleteCalls, toast, greetingsSent>>
    /\ UNCHANGED <<engineVars, chatVars, indexVars>>

\* the callback moving the cursor two steps on
NextQuestionTimer_skipsAStep ==
    /\ timers # <<>> /\ Head(timers).kind = "next"
    /\ timers' = Tail(timers)
    /\ messages' = addMessage(messages, now + 1,
                              <<structuredSteps[Head(timers).index + 2].question>>, TRUE)
    /\ now' = now + 1
    /\ currentStepIndex' = currentStepIndex + 2
    /\ isLoading' = FALSE
    /\ UNCHANGED <<currentStep, profileData, steps, pendingInsert, inserts,
                   onCompleteCalls, toast, greetingsSent>>
    /\ UNCHANGED <<engineVars, chatVars, indexVars>>

\* the 1000 ms callback of handleStructuredStepComplete, further steps remain
NextQuestionTimer ==
    /\ timers # <<>> /\ Head(timers).kind = "next"
    /\ timers' = Tail(timers)
    /\ messages' = addMessage(messages, now + 1,
                              <<structuredSteps[Head(timers).index + 2].question>>, TRUE)
    /\ now' = now + 1
    /\ currentStepIndex' = currentStepIndex + 1
    /\ isLoading' = FALSE
    /\ UNCHANGED <<currentStep, profileData, steps, pendingInsert, inserts,
                   onCompleteCalls, toast, greetingsSent>>
    /\ UNCHANGED <<engineVars, chatVars, indexVars>>

\* the 1000 ms callback of the last step: completeOnboarding up to its await,
\* with the profileData of the render that created the callback
CompleteOnboardingTimer ==
    /\ timers # <<>> /\ Head(timers).kind = "complete"
    /\ timers' = Tail(timers)
    /\ LET finalProfileData == ("user_id" :> Str(user.id)) @@ Head(timers).profileData
       IN  /\ inserts' = Append(inserts, finalProfileData)
           /\ pendingInsert' = [pending |-> TRUE, record |-> finalProfileData]
    /\ UNCHANGED <<currentStep, currentStepIndex, isLoading, profileData, messages,
                   steps, onCompleteCalls, toast, greetingsSent, now>>
    /\ UNCHANGED <<engineVars, chatVars, indexVars>>

\* completeOnboarding after the await: the insert returned no error, which
\* the UNIQUE constraint on profiles.user_id allows for a first row only
InsertSucceeds ==
    /\ pendingInsert.pending
    /\ ~dbProfile
    /\ dbProfile' = TRUE
    /\ profileSaved' = TRUE
    /\ pendingInsert' = NoInsert
    /\ messages' = addMessage(messages, now + 1, ClosingText, TRUE)
    /\ now' = now + 1
    /\ timers' = Append(timers, Timer("onComplete", 0, <<>>))
    /\ toast' = "Profile Created!"
    /\ isLoading' = FALSE
    /\ UNCHANGED <<currentStep, currentStepIndex, profileData, steps, inserts,
                   onCompleteCalls, greetingsSent>>
    /\ UNCHANGED <<activeView, indexProfile, setupProfile, setupCall, visits>>
    /\ UNCHANGED <<engineVars, chatVars>>

\* the failure path issuing the insert again
InsertFails_retries ==
    /\ pendingInsert.pending
    /\ pendingInsert' = pendingInsert
    /\ inserts' = Append(inserts, pendingInsert.record)
    /\ messages' = addMessage(messages, now + 1, ApologyText, TRUE)
    /\ now' = now + 1
    /\ toast' = "Error"
    /\ isLoading' = FALSE
    /\ UNCHANGED <<currentStep, currentStepIndex, profileData, steps, timers,
                   onCompleteCalls, greetingsSent>>
    /\ UNCHANGED <<engineVars, chatVars, indexVars>>

\* completeOnboarding after the await: the insert returned an error
InsertFails ==
    /\ pendingInsert.pending
    /\ pendingInsert' = NoInsert
    /\ messages' = addMessage(messages, now + 1, ApologyText, TRUE)
    /\ now' = now + 1
    /\ toast' = "Error"
    /\ isLoading' = FALSE
    /\ UNCHANGED <<currentStep, currentStepIndex, profileData, steps, timers,
                   inserts, onCompleteCalls, greetingsSent>>
    /\ UNCHANGED <<engineVars, chatVars, indexVars>>

\* the 2000 ms callback of completeOnboarding: onComplete?.(), which Index
\* passes as () => setActiveView('chat')
OnCompleteTimer ==
    /\ timers # <<>> /\ Head(timers).kind = "onComplete"
    /\ timers' = Tail(timers)
    /\ onCompleteCalls' = onCompleteCalls + 1
    /\ activeView' = "chat"
    /\ UNCHANGED <<currentStep, currentStepIndex, isLoading, profileData, messages,
                   steps, pendingInsert, inserts, toast, greetingsSent, now>>
    /\ UNCHANGED <<indexProfile, setupProfile, setupCall, dbProfile, profileSaved, visits>>
    /\ UNCHANGED <<engineVars, chatVars>>

(***************************************************************************)
(* fitness-ai-chat/index.ts: the edge function                             *)
(***************************************************************************)
fallbacks ==
    [workout |-> <<"I'm having trouble accessing my full capabilities right now, but I can still help! For a quick workout, try: 3 sets of 10 push-ups, 3 sets of 15 squats, and a 30-second plank. Focus on proper form and controlled movements. What specific exercises are you interested in?">>,
     diet |-> <<"I'm experiencing some technical difficulties, but here's a quick nutrition tip: Focus on eating a balanced plate with 1/2 vegetables, 1/4 lean protein, and 1/4 complex carbohydrates. Drink plenty of water throughout the day. What are your specific nutrition goals?">>,
     motivation |-> <<"Even though I'm having some technical issues, remember this: every workout, no matter how small, is progress! You're investing in your health and future self. What's one small healthy choice you can make today?">>,
     general |-> <<"I'm experiencing some connectivity issues, but I'm still here to help with your fitness journey! Whether you need workout advice, nutrition tips, or motivation, I'm ready to assist. What would you like to focus on today?">>]

\* fallbacks[context] || fallbacks.general
getFallbackResponse(context) ==
    IF context \in DOMAIN fallbacks THEN fallbacks[context] ELSE fallbacks.general

\* the text of the model's first candidate, when there is one
ModelText == <<"(the reply of the upstream model)">>
NoCandidateText == <<"I'm sorry, I couldn't generate a response right now. Please try again.">>

\* what the fetch of the upstream model does
GeminiOutcomes == {"text", "no_candidate", "http_error", "network_error"}

\* conversationHistory: the 10 newest chat_messages rows of the user, oldest
\* first, as {role, content}
conversationHistory(rows) ==
    LET n == Len(rows)
        recentMessages == IF n > 10 THEN SubSeq(rows, n - 9, n) ELSE rows
    IN  [k \in 1..Len(recentMessages) |->
            [role |-> IF recentMessages[k].is_user THEN "user" ELSE "assistant",
             content |-> recentMessages[k].message]]

\* geminiMessages: messages.slice(1) of [system, ...conversationHistory,
\* {role: 'user', content: message}] in the format of the model API
geminiMessages(rows, message) ==
    LET messagesTail == Append(conversationHistory(rows), [role |-> "user", content |-> message])
    IN  [k \in 1..Len(messagesTail) |->
            [role |-> IF messagesTail[k].role = "assistant" THEN "model" ELSE "user",
             text |-> messagesTail[k].content]]

\* The handler of serve for a POST whose body was read.  The const of line 24
\* binds message, userId and context inside the try block only: the catch
\* block's getFallbackResponse(context) evaluates an identifier that is not in
\* scope, which throws a ReferenceError out of the handler, and serve answers
\* a throwing handler with status 500.
serveHandler(body, gemini) ==
    LET context == IF body.context = Undefined THEN "general" ELSE body.context.s
    IN  IF body.message = <<>> \/ ~Truthy(body.userId)
        THEN [status |-> 400, body |-> [error |-> "Message and userId are required"]]
        ELSE CASE gemini = "text" ->
                      [status |-> 200, body |-> [message |-> ModelText, context |-> context]]
               [] gemini = "no_candidate" ->
                      [status |-> 200, body |-> [message |-> NoCandidateText, context |-> context]]
               [] OTHER ->
                      [status |-> 500, body |-> [error |-> "ReferenceError: context is not defined"]]

(***************************************************************************)
(* ChatInterface (src/components/ChatInterface.tsx) and useChatMessages    *)
(***************************************************************************)
MaxSends == 2
MaxClears == 1

ChatInputs == {
    <<"E", "a", "t", " ", "o", "r", " ", "t", "r", "a", "i", "n">>,
    <<"f", "o", "o", "d">>,
    <<"i", "n", "s", "p", "i", "r", "e", " ", "m", "e">>,
    <<"h", "e", "l", "l", "o">>,
    <<" ", " ">> }

ChatErrorText == <<"I'm having trouble right now. Let me help you with some general fitness advice! What would you like to focus on today?">>

\* detectContext: the first keyword group the lower-cased message contains
detectContext(message) ==
    LET lowerMessage == ToLowerCase(message)
        has(w) == StrIncludes(lowerMessage, w)
    IN  IF has(<<"w", "o", "r", "k", "o", "u", "t">>) \/ has(<<"e", "x", "e", "r", "c", "i", "s", "e">>) \/ has(<<"t", "r", "a", "i", "n">>) THEN "workout"
        ELSE IF has(<<"d", "i", "e", "t">>) \/ has(<<"f", "o", "o", "d">>) \/ has(<<"e", "a", "t">>) THEN "diet"
        ELSE IF has(<<"m", "o", "t", "i", "v", "a", "t">>) \/ has(<<"e", "n", "c", "o", "u", "r", "a", "g", "e">>) \/ has(<<"i", "n", "s", "p", "i", "r", "e">>) THEN "motivation"
        ELSE "general"

NoCall == [message |-> <<>>, context |-> "general", failed |-> FALSE, aiData |-> Undefined]

\* fetchMessages has returned: the list is loaded
FetchDone == [state |-> "done", data |-> <<>>]

ChatInit ==
    /\ chatFetch = FetchDone
    /\ chatHistory = <<>>
    /\ chatRows = <<>>
    /\ chatIsLoading = FALSE
    /\ chatPc = "idle"
    /\ chatCall = NoCall
    /\ chatEscaped = FALSE
    /\ chatToast = ""
    /\ chatSends = 0
    /\ chatClears = 0

\* what the insert of a chat_messages row does
InsertOutcomes == {"inserted", "error", "exception"}

\* useChatMessages.addMessage: the row is appended locally when the insert
\* returned no error; an error and an exception are logged, nothing is thrown
useChatMessages_addMessage(message, outcome) ==
    LET data == [user_id |-> user.id] @@ message
    IN  [rows |-> IF outcome = "inserted" THEN Append(chatRows, data) ELSE chatRows,
         messages |-> IF outcome = "inserted" THEN Append(chatHistory, data) ELSE chatHistory,
         threw |-> FALSE]

\* sendMessage up to its first await; the input and the button are disabled
\* while isLoading
sendMessage(raw) ==
    LET userMessageText == Trim(raw)
    IN  /\ chatPc = "idle" /\ ~chatIsLoading
        /\ chatSends < MaxSends
        /\ userMessageText # <<>>
        /\ chatCall' = [NoCall EXCEPT !.message = userMessageText,
                                      !.context = detectContext(userMessageText)]
        /\ chatIsLoading' = TRUE
        /\ chatPc' = "addUser"
        /\ chatSends' = chatSends + 1
        /\ UNCHANGED <<chatHistory, chatRows, chatEscaped, chatToast, chatClears>>
        /\ UNCHANGED <<engineVars, onboardingVars, indexVars, chatFetch>>

\* the finally block, reached with or without an exception in flight
Finally(threw) ==
    /\ chatIsLoading' = FALSE
    /\ chatPc' = "idle"
    /\ chatCall' = NoCall
    /\ chatEscaped' = (chatEscaped \/ threw)

\* the catch block after its await addMessage: the notification, unless
\* that addMessage threw
CatchBlock(r) ==
    /\ chatToast' = IF r.threw THEN chatToast ELSE "Response Error"
    /\ Finally(r.threw)

\* await addMessage({message: userMessageText, is_user: true, ...}) returns
UserInsertReturns(outcome) ==
    LET r == useChatMessages_addMessage(
                 [message |-> chatCall.message, is_user |-> TRUE,
                  context |-> chatCall.context, sentiment |-> "null"], outcome)
    IN  /\ chatPc = "addUser"
        /\ chatHistory' = r.messages
        /\ chatRows' = r.rows
        /\ chatPc' = IF r.threw THEN "catch" ELSE "invoke"
        /\ UNCHANGED <<chatIsLoading, chatCall, chatEscaped, chatToast, chatSends, chatClears>>
        /\ UNCHANGED <<engineVars, onboardingVars, indexVars, chatFetch>>

\* await supabase.functions.invoke('fitness-ai-chat', ...) returns: the
\* request did not reach the function, or the function answered
InvokeReturns(net, gemini) ==
    LET response == serveHandler([message |-> chatCall.message, userId |-> Str(user.id),
                                  context |-> Str(chatCall.context)], gemini)
        aiError == net = "transport" \/ response.status \notin 200..299
        upstreamFailed == gemini \in {"http_error", "network_error"}
    IN  /\ chatPc = "invoke"
        /\ IF aiError
           THEN /\ chatPc' = "catch"
                /\ chatCall' = [chatCall EXCEPT !.failed = TRUE]
           ELSE /\ chatPc' = "addReply"
                /\ chatCall' = [chatCall EXCEPT !.failed = upstreamFailed,
                                                !.aiData = response.body]
        /\ UNCHANGED <<chatHistory, chatRows, chatIsLoading, chatEscaped, chatToast,
                       chatSends, chatClears>>
        /\ UNCHANGED <<engineVars, onboardingVars, indexVars, chatFetch>>

\* await addMessage({message: aiData.message, is_user: false, ...}) returns
ReplyInsertReturns(outcome) ==
    LET r == useChatMessages_addMessage(
                 [message |-> chatCall.aiData.message, is_user |-> FALSE,
                  context |-> chatCall.aiData.context, sentiment |-> "neutral"], outcome)
    IN  /\ chatPc = "addReply"
        /\ chatHistory' = r.messages
        /\ chatRows' = r.rows
        /\ IF r.threw
           THEN /\ chatPc' = "catch"
                /\ UNCHANGED <<chatIsLoading, chatCall, chatEscaped>>
           ELSE Finally(FALSE)
        /\ UNCHANGED <<chatToast, chatSends, chatClears>>
        /\ UNCHANGED <<engineVars, onboardingVars, indexVars, chatFetch>>

\* the catch block without the finally that follows it
FallbackInsertReturns_noFinally(outcome) ==
    LET r == useChatMessages_addMessage(
                 [message |-> ChatErrorText, is_user |-> FALSE,
                  context |-> "general", sentiment |-> "null"], outcome)
    IN  /\ chatPc = "catch"
        /\ chatHistory' = r.messages
        /\ chatRows' = r.rows
        /\ chatToast' = "Response Error"
        /\ chatPc' = "idle"
        /\ chatCall' = NoCall
        /\ UNCHANGED <<chatIsLoading, chatEscaped, chatSends, chatClears>>
        /\ UNCHANGED <<engineVars, onboardingVars, indexVars, chatFetch>>

\* the catch block: await addMessage({message: "I'm having trouble ...",
\* is_user: false, context: 'general'}) returns, then the toast and finally
FallbackInsertReturns(outcome) ==
    LET r == useChatMessages_addMessage(
                 [message |-> ChatErrorText, is_user |-> FALSE,
                  context |-> "general", sentiment |-> "null"], outcome)
    IN  /\ chatPc = "catch"
        /\ chatHistory' = r.messages
        /\ chatRows' = r.rows
        /\ CatchBlock(r)
        /\ UNCHANGED <<chatSends, chatClears>>
        /\ UNCHANGED <<engineVars, onboardingVars, indexVars, chatFetch>>

\* handleClearChat: the button shows while the list is not empty;
\* clearMessages empties the list when the delete returned no error
handleClearChat(deleted) ==
    /\ chatHistory # <<>>
    /\ chatClears < MaxClears
    /\ chatClears' = chatClears + 1
    /\ IF deleted
       THEN chatRows' = <<>> /\ chatHistory' = <<>>
       ELSE UNCHANGED <<chatRows, chatHistory>>
    /\ chatToast' = "Chat Cleared"
    /\ UNCHANGED <<chatIsLoading, chatPc, chatCall, chatEscaped, chatSends>>
    /\ UNCHANGED <<engineVars, onboardingVars, indexVars, chatFetch>>

\* a chat_messages row of the user as the table returns it
StoredRow(text, isUser) ==
    [user_id |-> user.id, message |-> text, is_user |-> isUser,
     context |-> "general", sentiment |-> IF isUser THEN "null" ELSE "neutral"]

\* what chat_messages holds for the user when the chat is opened
StoredHistories ==
    { <<>>,
      <<StoredRow(<<"h", "e", "l", "l", "o">>, TRUE), StoredRow(ModelText, FALSE)>> }

\* useChatMessages(userId) on mount: messages = [], the effect has called
\* fetchMessages and its select is on its way
ChatMountInit ==
    /\ chatFetch = [state |-> "pending", data |-> <<>>]
    /\ chatHistory = <<>>
    /\ chatRows \in StoredHistories
    /\ chatIsLoading = FALSE
    /\ chatPc = "idle"
    /\ chatCall = NoCall
    /\ chatEscaped = FALSE
    /\ chatToast = ""
    /\ chatSends = 0
    /\ chatClears = 0

\* the select of fetchMessages is executed: it reads the rows stored by then,
\* ordered by created_at
FetchReads ==
    /\ chatFetch.state = "pending"
    /\ chatFetch' = [state |-> "read", data |-> chatRows]
    /\ UNCHANGED <<chatHistory, chatRows, chatIsLoading, chatPc, chatCall, chatEscaped,
                   chatToast, chatSends, chatClears>>
    /\ UNCHANGED <<engineVars, onboardingVars, indexVars>>

\* fetchMessages after its await: setMessages(data || []) unless the select
\* returned an error
FetchReturns(ok) ==
    /\ chatFetch.state = "read"
    /\ chatFetch' = FetchDone
    /\ chatHistory' = IF ok THEN chatFetch.data ELSE chatHistory
    /\ UNCHANGED <<chatRows, chatIsLoading, chatPc, chatCall, chatEscaped,
                   chatToast, chatSends, chatClears>>
    /\ UNCHANGED <<engineVars, onboardingVars, indexVars>>

(***************************************************************************)
(* Index (src/pages/Index.tsx), useUserProfile and ProfileSetup.saveProfile *)
(***************************************************************************)
MaxVisits == 2

NoSetupCall == [pending |-> FALSE, op |-> "none"]

\* one onboarding session shown in the profile view of a user without a row
IndexInit ==
    /\ activeView = "profile"
    /\ indexProfile = "null"
    /\ setupProfile = "unmounted"
    /\ setupCall = NoSetupCall
    /\ dbProfile = FALSE
    /\ profileSaved = FALSE
    /\ visits = 1

\* renderActiveView, case 'profile': userProfile ? ProfileSetup : ConversationalOnboarding
OnboardingMounted == activeView = "profile" /\ indexProfile # "row"
SetupMounted == activeView = "profile" /\ indexProfile = "row"

\* no callback and no request of the component shown is outstanding
Quiescent == timers = <<>> /\ ~pendingInsert.pending /\ ~setupCall.pending

\* ConversationalOnboarding mounts: useState initial values and the mount effect
MountOnboarding ==
    /\ currentStep' = "greeting"
    /\ currentStepIndex' = 0
    /\ isLoading' = FALSE
    /\ profileData' = <<>>
    /\ messages' = <<[id |-> 1, text |-> WelcomeText, isBot |-> TRUE]>>
    /\ steps' = [i \in 1..Len(structuredSteps) |-> [completed |-> FALSE]]
    /\ greetingsSent' = 0
    /\ UNCHANGED <<timers, pendingInsert, inserts, onCompleteCalls, toast, now>>

\* fetchProfile of useUserProfile: .single() gives the row, or null with
\* PGRST116 when there is none; any other error leaves the state null
FetchedProfile(ok) == IF ok /\ dbProfile THEN "row" ELSE "null"

\* Index mounts: activeView 'chat', its useUserProfile fetch under way
IndexMountInit ==
    /\ activeView = "chat"
    /\ indexProfile = "loading"
    /\ setupProfile = "unmounted"
    /\ setupCall = NoSetupCall
    /\ dbProfile \in BOOLEAN
    /\ profileSaved = FALSE
    /\ visits = 0

\* the fetch of Index's useUserProfile returns; it runs once per user id
IndexFetchReturns(ok) ==
    /\ indexProfile = "loading"
    /\ Quiescent
    /\ indexProfile' = FetchedProfile(ok)
    /\ setupProfile' = IF activeView = "profile" /\ FetchedProfile(ok) = "row"
                       THEN "loading" ELSE setupProfile
    /\ UNCHANGED <<activeView, setupCall, dbProfile, profileSaved, visits>>
    /\ UNCHANGED <<engineVars, onboardingVars, chatVars>>

\* a click on the sidebar item 'profile'
ShowProfile ==
    /\ activeView = "chat"
    /\ visits < MaxVisits
    /\ visits' = visits + 1
    /\ activeView' = "profile"
    /\ IF indexProfile = "row"
       THEN /\ setupProfile' = "loading"
            /\ UNCHANGED onboardingVars
       ELSE /\ setupProfile' = "unmounted"
            /\ MountOnboarding
    /\ UNCHANGED <<indexProfile, setupCall, dbProfile, profileSaved>>
    /\ UNCHANGED <<engineVars, chatVars>>

\* a click on the sidebar item 'chat'
ShowChat ==
    /\ activeView = "profile"
    /\ Quiescent
    /\ activeView' = "chat"
    /\ setupProfile' = "unmounted"
    /\ UNCHANGED <<indexProfile, setupCall, dbProfile, profileSaved, visits>>
    /\ UNCHANGED <<engineVars, onboardingVars, chatVars>>

\* the fetch of ProfileSetup's useUserProfile returns
SetupFetchReturns(ok) ==
    /\ SetupMounted
    /\ setupProfile = "loading"
    /\ setupProfile' = FetchedProfile(ok)
    /\ UNCHANGED <<activeView, indexProfile, setupCall, dbProfile, profileSaved, visits>>
    /\ UNCHANGED <<engineVars, onboardingVars, chatVars>>

\* ProfileSetup.saveProfile with a valid form, up to its await
saveProfile ==
    /\ SetupMounted
    /\ ~setupCall.pending
    /\ setupCall' = [pending |-> TRUE,
                     op |-> IF setupProfile = "row" THEN "update" ELSE "insert"]
    /\ UNCHANGED <<activeView, indexProfile, setupProfile, dbProfile, profileSaved, visits>>
    /\ UNCHANGED <<engineVars, onboardingVars, chatVars>>

\* saveProfile after the await: no error, then the toast and onComplete?.()
SetupSaveSucceeds ==
    /\ setupCall.pending
    /\ setupCall.op = "insert" => ~dbProfile
    /\ setupCall' = NoSetupCall
    /\ dbProfile' = (dbProfile \/ setupCall.op = "insert")
    /\ profileSaved' = TRUE
    /\ toast' = IF setupCall.op = "insert" THEN "Profile Created!" ELSE "Profile Updated!"
    /\ activeView' = "chat"
    /\ setupProfile' = "unmounted"
    /\ UNCHANGED <<indexProfile, visits>>
    /\ UNCHANGED <<currentStep, currentStepIndex, isLoading, profileData, messages,
                   steps, timers, pendingInsert, inserts, onCompleteCalls,
                   greetingsSent, now>>
    /\ UNCHANGED <<engineVars, chatVars>>

\* saveProfile after the await: the error is thrown and caught
SetupSaveFails ==
    /\ setupCall.pending
    /\ setupCall' = NoSetupCall
    /\ toast' = "Error"
    /\ UNCHANGED <<activeView, indexProfile, setupProfile, dbProfile, profileSaved, visits>>
    /\ UNCHANGED <<currentStep, currentStepIndex, isLoading, profileData, messages,
                   steps, timers, pendingInsert, inserts, onCompleteCalls,
                   greetingsSent, now>>
    /\ UNCHANGED <<engineVars, chatVars>>

(***************************************************************************)
(* The engine calls                                                        *)
(***************************************************************************)
CallGenerateWorkoutPlan ==
    /\ result = NoResult
    /\ result' = [fn |-> "generateWorkoutPlan"] @@ generateWorkoutPlan(userProfile)
    /\ UNCHANGED userProfile
    /\ UNCHANGED <<onboardingVars, chatVars, indexVars>>

CallGenerateDietPlan ==
    /\ result = NoResult
    /\ result' = [fn |-> "generateDietPlan"] @@ generateDietPlan(userProfile)
    /\ UNCHANGED userProfile
    /\ UNCHANGED <<onboardingVars, chatVars, indexVars>>

(***************************************************************************)
(* Specifications                                                          *)
(***************************************************************************)
ExampleProfile ==
    [fitnessLevel |-> Str("beginner"), goals |-> Arr(<<>>), weight |-> Num(70),
     height |-> Num(170), age |-> Num(25), gender |-> Str("male"),
     activityLevel |-> Str("moderate")]

\* the recommendation engine called once with any profile
InitEngine ==
    /\ userProfile \in Profiles
    /\ result = NoResult
    /\ OnboardingInit
    /\ ChatInit
    /\ IndexInit

NextEngine ==
    \/ CallGenerateWorkoutPlan
    \/ CallGenerateDietPlan

SpecEngine == InitEngine /\ [][NextEngine]_vars

\* one onboarding session
Init ==
    /\ userProfile = ExampleProfile
    /\ result = NoResult
    /\ OnboardingInit
    /\ ChatInit
    /\ IndexInit

Next ==
    \/ \E raw \in GreetingInputs, gap \in {0, 1} : HandleUserMessage(raw, gap)
    \/ \E in \in HeightWeightInputs : HeightWeightSubmit(in)
    \/ \E i \in 1..4 : SelectOption(i)
    \/ \E raw \in DietInputs : InputBoxSubmit(raw)
    \/ \E s \in SelectionInputs(structuredSteps[4].options)
             \cup SelectionInputs(structuredSteps[5].options) : MultiSelectSubmit(s)
    \/ FirstQuestionTimer
    \/ NextQuestionTimer
    \/ CompleteOnboardingTimer
    \/ InsertSucceeds
    \/ InsertFails
    \/ OnCompleteTimer

Spec == Init /\ [][Next]_vars

\* the profile view across visits: one user, one answer per onboarding step
InitProfile ==
    /\ userProfile = ExampleProfile
    /\ result = NoResult
    /\ OnboardingInit
    /\ ChatInit
    /\ IndexMountInit

NextOnboardingOnce ==
    \/ HandleUserMessage(<<"h", "e", "y", " ", "t", "h", "e", "r", "e">>, 1)
    \/ HeightWeightSubmit([unit |-> "metric", height |-> 1700, weight |-> 700])
    \/ SelectOption(1)
    \/ InputBoxSubmit(<<"r", "i", "c", "e", ",", " ", "b", "e", "a", "n", "s">>)
    \/ \E s \in {<<"gym_membership">>, <<"none">>} : MultiSelectSubmit(s)
    \/ FirstQuestionTimer
    \/ NextQuestionTimer
    \/ CompleteOnboardingTimer
    \/ InsertSucceeds
    \/ InsertFails
    \/ OnCompleteTimer

NextProfile ==
    \/ \E ok \in BOOLEAN : IndexFetchReturns(ok)
    \/ ShowProfile
    \/ ShowChat
    \/ \E ok \in BOOLEAN : SetupFetchReturns(ok)
    \/ saveProfile
    \/ SetupSaveSucceeds
    \/ SetupSaveFails
    \/ (OnboardingMounted /\ NextOnboardingOnce)

SpecProfile == InitProfile /\ [][NextProfile]_vars

\* one chat session
NextChatResponses ==
    \/ \E outcome \in InsertOutcomes : UserInsertReturns(outcome)
    \/ \E net \in {"ok", "transport"}, gemini \in GeminiOutcomes : InvokeReturns(net, gemini)
    \/ \E outcome \in InsertOutcomes : ReplyInsertReturns(outcome)
    \/ \E outcome \in InsertOutcomes : FallbackInsertReturns(outcome)

NextChat ==
    \/ \E raw \in ChatInputs : sendMessage(raw)
    \/ NextChatResponses
    \/ \E deleted \in BOOLEAN : handleClearChat(deleted)

SpecChat == Init /\ [][NextChat]_vars

\* every request of a running sendMessage is eventually answered
SpecChatLive == SpecChat /\ WF_vars(NextChatResponses)

\* one chat session from the mount of ChatInterface
InitChatMount ==
    /\ userProfile = ExampleProfile
    /\ result = NoResult
    /\ OnboardingInit
    /\ ChatMountInit
    /\ IndexInit

NextChatMount ==
    \/ FetchReads
    \/ \E ok \in BOOLEAN : FetchReturns(ok)
    \/ \E raw \in ChatInputs : sendMessage(raw)
    \/ NextChatResponses
    \/ \E deleted \in BOOLEAN : handleClearChat(deleted)

SpecChatMount == InitChatMount /\ [][NextChatMount]_vars

\* one chat session in which every insert of a chat_messages row succeeds
NextChatStored ==
    \/ \E raw \in ChatInputs : sendMessage(raw)
    \/ UserInsertReturns("inserted")
    \/ \E net \in {"ok", "transport"}, gemini \in GeminiOutcomes : InvokeReturns(net, gemini)
    \/ ReplyInsertReturns("inserted")
    \/ FallbackInsertReturns("inserted")
    \/ \E deleted \in BOOLEAN : handleClearChat(deleted)

SpecChatStored == Init /\ [][NextChatStored]_vars

(***************************************************************************)
(* Properties of the recommendation engine (checked under SpecEngine)      *)
(***************************************************************************)
Called(fn) == result.fn = fn
KnownLevels == {"beginner", "intermediate", "advanced"}
HasGoal(tag) == userProfile.goals.t = "array" /\ tag \in Range(userProfile.goals.a)
\* a level that is missing or blank is the absent level
LevelAbsent == userProfile.fitnessLevel \in {Undefined, Str("")}
NumbersPresent ==
    /\ userProfile.weight.t = "number"
    /\ userProfile.height.t = "number"
    /\ userProfile.age.t = "number"

\* C1: with a fitnessLevel of beginner, intermediate or advanced (an absent
\* level counts as beginner) generateWorkoutPlan returns that level's cardio
\* table when goals contains weight_loss and its strength table otherwise,
\* also when goals is absent or empty.
C1_LevelAndGoalSelectTable ==
    (Called("generateWorkoutPlan")
     /\ (LevelAbsent \/ (userProfile.fitnessLevel.t = "string"
                         /\ userProfile.fitnessLevel.s \in KnownLevels)))
    => LET lvl == IF LevelAbsent THEN "beginner" ELSE userProfile.fitnessLevel.s
       IN  /\ ~result.threw
           /\ result.value = Obj(IF HasGoal("weight_loss")
                                 THEN workoutPlans[lvl].cardio
                                 ELSE workoutPlans[lvl].strength)

C1_Witness ==
    /\ Called("generateWorkoutPlan")
    /\ userProfile.fitnessLevel = Str("intermediate")
    /\ userProfile.goals = Arr(<<"muscle_gain", "weight_loss">>)
    /\ result.value = Obj(intermediate_cardio)

\* C2: with a fitnessLevel that is set but is not beginner, intermediate or
\* advanced, generateWorkoutPlan returns the beginner strength table and does
\* not throw, whatever goals contains (weight_loss included).
C2_UnknownLevelFallsBack ==
    (Called("generateWorkoutPlan")
     /\ ~LevelAbsent
     /\ userProfile.fitnessLevel.s \notin KnownLevels)
    => /\ ~result.threw
       /\ result.value = Obj(beginner_strength)

C2_Witness ==
    /\ Called("generateWorkoutPlan")
    /\ userProfile.fitnessLevel = Str("expert")
    /\ userProfile.goals = Arr(<<"weight_loss">>)
    /\ ~result.threw
    /\ result.value = Obj(beginner_strength)

IsExample(goals) ==
    /\ userProfile.weight = Num(70) /\ userProfile.height = Num(170)
    /\ userProfile.age = Num(25) /\ userProfile.gender = Str("male")
    /\ userProfile.activityLevel = Str("moderate")
    /\ userProfile.goals = Arr(goals)

\* C3 as stated: the worked example (weight 70, height 170, age 25, male,
\* moderate) gives targetCalories 2594 with protein 195, carbs 259 and fats 86
\* for no goals, and targetCalories 2075 for goals ["weight_loss"].
C3_WorkedExampleAsStated ==
    Called("generateDietPlan")
    => /\ IsExample(<<>>)
          => /\ ~result.threw
             /\ result.value.o.targetCalories = Num(2594)
             /\ result.value.o.macros =
                    [protein |-> Num(195), carbs |-> Num(259), fats |-> Num(86)]
       /\ IsExample(<<"weight_loss">>)
          => /\ ~result.threw
             /\ result.value.o.targetCalories = Num(2075)

\* C3 amended: the BMR of the example is 700 + 1062.5 - 125 + 5 = 1642.5, so
\* the example gives targetCalories round(1642.5 * 1.55) = 2546 with protein
\* 191, carbs 255 and fats 85 for no goals, and targetCalories
\* round(2546 * 0.8) = 2037 for goals ["weight_loss"].
C3_WorkedExample ==
    Called("generateDietPlan")
    => /\ IsExample(<<>>)
          => /\ ~result.threw
             /\ result.value.o.targetCalories = Num(2546)
             /\ result.value.o.macros =
                    [protein |-> Num(191), carbs |-> Num(255), fats |-> Num(85)]
       /\ IsExample(<<"weight_loss">>)
          => /\ ~result.threw
             /\ result.value.o.targetCalories = Num(2037)

C3_Witness ==
    /\ Called("generateDietPlan")
    /\ IsExample(<<"weight_loss">>)
    /\ ~result.threw
    /\ result.value.o.targetCalories = Num(2037)

\* the nearest integer to num / den, halves up
Nearest(num, den) == CHOOSE k \in ((num \div den) - 1)..((num \div den) + 1) :
                        2 * den * k <= 2 * num + den /\ 2 * num + den < 2 * den * (k + 1)

\* C4: without weight_loss and muscle_gain in goals, targetCalories is
\* round(BMR * m) with BMR = 10*weight + 6.25*height - 5*age + 5 for a gender of
\* "male" or unset and ... - 161 for any other gender, and m = 1.2 / 1.375 /
\* 1.55 / 1.725 / 1.9 for sedentary / light / moderate / active / very_active
\* and 1.375 for any other or missing activityLevel.
C4_BaseCalories ==
    (Called("generateDietPlan") /\ NumbersPresent
     /\ ~HasGoal("weight_loss") /\ ~HasGoal("muscle_gain"))
    => LET w == userProfile.weight.n
           h == userProfile.height.n
           a == userProfile.age.n
           male == userProfile.gender \in {Str("male"), Str(""), Undefined}
           \* 100 * BMR
           bmr100 == 1000 * w + 625 * h - 500 * a + (IF male THEN 500 ELSE -16100)
           al == userProfile.activityLevel
           \* 1000 * m
           m1000 == CASE al = Str("sedentary") -> 1200
                      [] al = Str("light") -> 1375
                      [] al = Str("moderate") -> 1550
                      [] al = Str("active") -> 1725
                      [] al = Str("very_active") -> 1900
                      [] OTHER -> 1375
       IN  /\ ~result.threw
           /\ result.value.o.targetCalories = Num(Nearest(bmr100 * m1000, 100000))

C4_Witness ==
    /\ Called("generateDietPlan")
    /\ userProfile.weight = Num(70) /\ userProfile.height = Num(172)
    /\ userProfile.age = Num(24) /\ userProfile.gender = Str("other")
    /\ userProfile.activityLevel = Str("lightly_active")
    /\ userProfile.goals = Arr(<<"endurance">>)
    \* BMR = 700 + 1075 - 120 - 161 = 1494, 1494 * 1.375 = 2054.25
    /\ result.value.o.targetCalories = Num(2054)

\* the daily calories D of the called profile, before the goal adjustment
DailyOfProfile ==
    DailyCalories(calculateBMR(userProfile.weight, userProfile.height, userProfile.age,
                               OrElse(userProfile.gender, Str("male"))),
                  Multiplier(userProfile.activityLevel))

\* C5: the goal adjustment is first-match on the rounded daily calories D:
\* with weight_loss in goals targetCalories = round(D * 0.8), also when
\* muscle_gain is there too; with muscle_gain and no weight_loss it is
\* round(D * 1.1); otherwise it is D.
C5_GoalAdjustmentFirstMatch ==
    (Called("generateDietPlan") /\ NumbersPresent)
    => LET D == DailyOfProfile.n
           T == result.value.o.targetCalories
       IN  /\ ~result.threw
           /\ HasGoal("weight_loss") => T = Num(Nearest(D * 8, 10))
           /\ (HasGoal("muscle_gain") /\ ~HasGoal("weight_loss"))
                  => T = Num(Nearest(D * 11, 10))
           /\ (~HasGoal("muscle_gain") /\ ~HasGoal("weight_loss")) => T = Num(D)

C5_Witness ==
    /\ Called("generateDietPlan")
    /\ userProfile.weight = Num(70) /\ userProfile.height = Num(170)
    /\ userProfile.age = Num(25) /\ userProfile.gender = Str("male")
    /\ userProfile.activityLevel = Str("moderate")
    /\ userProfile.goals = Arr(<<"muscle_gain", "weight_loss">>)
    /\ DailyOfProfile = Num(2546)
    /\ result.value.o.targetCalories = Num(2037)

\* C6: the macros are protein = round(0.30 * T / 4), carbs = round(0.40 * T / 4)
\* and fats = round(0.30 * T / 9) of the goal-adjusted targetCalories T, and
\* of nothing else in the profile.
C6_MacrosFromTargetCalories ==
    (Called("generateDietPlan") /\ ~result.threw
     /\ result.value.o.targetCalories.t = "number")
    => LET T == result.value.o.targetCalories.n
       IN  result.value.o.macros =
               [protein |-> Num(Nearest(30 * T, 400)),
                carbs |-> Num(Nearest(40 * T, 400)),
                fats |-> Num(Nearest(30 * T, 900))]

C6_Witness ==
    /\ Called("generateDietPlan")
    /\ userProfile.goals = Arr(<<>>)
    /\ result.value.o.targetCalories = Num(2565)
    \* 192.375, 256.5 and 85.5: both halves go up
    /\ result.value.o.macros = [protein |-> Num(192), carbs |-> Num(257), fats |-> Num(86)]

\* C7: generateDietPlan does not throw; with weight, height or age missing it
\* still returns a plan, whose targetCalories and macros are NaN; a missing
\* goals field is treated as no goal.
C7_DietPlanNeverThrows ==
    Called("generateDietPlan")
    => /\ ~result.threw
       /\ ~NumbersPresent
          => /\ result.value.o.targetCalories = NaN
             /\ result.value.o.macros = [protein |-> NaN, carbs |-> NaN, fats |-> NaN]
       /\ (NumbersPresent /\ userProfile.goals = Undefined)
          => result.value.o.targetCalories = DailyOfProfile

C7_Witness ==
    /\ Called("generateDietPlan")
    /\ userProfile.weight = Undefined
    /\ userProfile.goals = Undefined
    /\ ~result.threw
    /\ result.value.o.targetCalories = NaN
    /\ result.value.o.macros.fats = NaN

(***************************************************************************)
(* Properties of the onboarding controller (checked under Spec)            *)
(***************************************************************************)
Last(seq) == seq[Len(seq)]
IsPrefix(a, b) == Len(a) <= Len(b) /\ SubSeq(b, 1, Len(a)) = a
Question(i) == <<structuredSteps[i + 1].question>>

C8_Keywords == {
    <<"h", "e", "l", "l", "o">>,
    <<"h", "i">>,
    <<"h", "e", "y">>,
    <<"h", "o", "l", "a">>,
    <<"g", "r", "e", "e", "t", "i", "n", "g", "s">>,
    <<"g", "o", "o", "d", " ", "m", "o", "r", "n", "i", "n", "g">>,
    <<"g", "o", "o", "d", " ", "a", "f", "t", "e", "r", "n", "o", "o", "n">>,
    <<"g", "o", "o", "d", " ", "e", "v", "e", "n", "i", "n", "g">> }

\* C8: in the greeting state an inbound message is appended to the transcript
\* first; the controller then moves to structured with cursor 0, with the first
\* step's question due as a bot entry, exactly when the lower-cased message
\* contains one of hello, hi, hey, hola, greetings, good morning, good
\* afternoon, good evening; otherwise it stays in greeting and appends the one
\* fixed reprompt.
C8_GreetingStep ==
    [][ /\ (currentStep = "greeting" /\ messages' # messages)
           => LET n == Len(messages)
                  typed == messages'[n + 1]
                  matches == \E k \in C8_Keywords : StrIncludes(ToLowerCase(typed.text), k)
              IN  /\ IsPrefix(messages, messages')
                  /\ Len(messages') = n + 2
                  /\ ~typed.isBot
                  /\ messages'[n + 2].isBot
                  /\ matches
                     => /\ currentStep' = "structured"
                        /\ currentStepIndex' = 0
                        /\ timers' = <<Timer("question0", 0, <<>>)>>
                  /\ ~matches
                     => /\ currentStep' = "greeting"
                        /\ messages'[n + 2].text = RepromptText
                        /\ timers' = <<>>
        /\ (timers # <<>> /\ Head(timers).kind = "question0"
            /\ Len(timers') < Len(timers))
           => /\ messages' = Append(messages, [id |-> now', text |-> Question(0), isBot |-> TRUE])
              /\ currentStep' = "structured"
              /\ currentStepIndex' = currentStepIndex
      ]_vars

C8_Witness ==
    /\ currentStep = "structured"
    /\ currentStepIndex = 0
    /\ Len(messages) = 6
    /\ messages[2].text = <<"o", "k", " ", "l", "e", "t", "'", "s", " ", "g", "o">> /\ ~messages[2].isBot
    /\ messages[3].text = RepromptText /\ messages[3].isBot
    /\ messages[4].text = <<"h", "e", "y", " ", "t", "h", "e", "r", "e">> /\ ~messages[4].isBot
    /\ messages[5].text = ThanksText
    /\ messages[6].text = Question(0) /\ messages[6].isBot

\* C9: completing the final step triggers exactly one insert call, whose
\* record holds the answers of all five steps (the last one included) and
\* the user's identifier.
C9_InsertHasAllAnswers ==
    pendingInsert.pending
    => /\ Len(inserts) = 1
       /\ inserts[1]["user_id"] = Str(user.id)
       /\ \A i \in 1..Len(structuredSteps) :
              /\ structuredSteps[i].field \in DOMAIN inserts[1]
              /\ inserts[1][structuredSteps[i].field] = profileData[structuredSteps[i].field]

SubmittedMetric170x70 == Obj([height |-> Num(170), weight |-> Num(70)])

\* C10: in the structured state at cursor 0 with the first question shown,
\* submitting height 170 and weight 70 in metric appends exactly one user
\* entry and leaves the cursor at 0 until the delay has passed; the delayed
\* callback then moves the cursor to 1 and appends exactly one bot entry, the
\* question of step 1; nothing more is appended and the cursor stays at 1
\* until the next answer.
C10_FirstStepSubmission ==
    [][ /\ (/\ currentStep = "structured" /\ currentStepIndex = 0
            /\ Last(messages).text = Question(0) /\ timers = <<>>
            /\ ~steps[1].completed /\ steps'[1].completed
            /\ profileData'["height"] = SubmittedMetric170x70)
           => /\ Len(messages') = Len(messages) + 1
              /\ IsPrefix(messages, messages')
              /\ ~Last(messages').isBot
              /\ currentStepIndex' = 0
              /\ Len(timers') = 1
        /\ (/\ currentStepIndex = 0 /\ steps[1].completed
            /\ timers # <<>> /\ Head(timers).kind = "next"
            /\ Len(timers') < Len(timers))
           => /\ currentStepIndex' = 1
              /\ messages' = Append(messages, [id |-> now', text |-> Question(1), isBot |-> TRUE])
              /\ timers' = <<>>
        /\ (/\ currentStepIndex = 1 /\ ~steps[2].completed /\ ~steps'[2].completed)
           => /\ currentStepIndex' = 1
              /\ messages' = messages
        /\ (currentStepIndex = 0 /\ currentStepIndex' # 0) => currentStepIndex' = 1
      ]_vars

C10_Witness ==
    /\ currentStep = "structured"
    /\ currentStepIndex = 1
    /\ profileData["height"] = SubmittedMetric170x70
    /\ ~steps[2].completed
    /\ timers = <<>>
    /\ Len(messages) >= 3
    /\ messages[Len(messages) - 2].text = Question(0)
    /\ ~messages[Len(messages) - 1].isBot
    /\ Last(messages).text = Question(1) /\ Last(messages).isBot

\* C11: a height/weight submission whose height in cm is outside 100-250 or
\* whose weight in kg is outside 30-250 (after the imperial conversion) is
\* rejected: the step that reports it leaves the cursor, the draft profile,
\* the completion flags and the transcript unchanged, and the values of an
\* accepted submission are within both ranges.
C11_OutOfRangeRejected ==
    [][ /\ (toast' # toast /\ toast' \in {"Invalid Height", "Invalid Weight"})
           => /\ currentStep = "structured" /\ currentStepIndex = 0
              /\ UNCHANGED <<currentStep, currentStepIndex, profileData, steps, messages>>
        /\ (~steps[1].completed /\ steps'[1].completed)
           => /\ profileData'["height"].o.height.n \in 100..250
              /\ profileData'["height"].o.weight.n \in 30..250
      ]_vars

C11_Witness ==
    /\ toast = "Invalid Height"
    /\ currentStep = "structured" /\ currentStepIndex = 0
    /\ ~steps[1].completed
    /\ profileData = <<>>
    /\ Last(messages).text = Question(0)

\* C12: for every step, a submission reaches the controller (a user entry in
\* the transcript, a new field of the draft profile, a completed step and
\* then the cursor advance) only if the submitted value satisfies the
\* validation predicate the step table declares for that step; a value that
\* fails it causes no transition and no transcript entry.
C12_OnlyValidatedValuesReachController ==
    [][ (/\ currentStep = "structured"
         /\ \/ profileData' # profileData
            \/ steps' # steps
            \/ (Len(messages') > Len(messages) /\ ~Last(messages').isBot))
        => LET step == structuredSteps[currentStepIndex + 1]
           IN  /\ step.field \in DOMAIN profileData'
               /\ validation(step, profileData'[step.field])
               /\ steps' = [steps EXCEPT ![currentStepIndex + 1].completed = TRUE]
               /\ Len(messages') = Len(messages) + 1
      ]_vars

C12_Witness ==
    /\ currentStep = "structured" /\ currentStepIndex = 3
    /\ \A i \in 1..3 : steps[i].completed
    /\ profileData["height"] = Obj([height |-> Num(100), weight |-> Num(30)])
    /\ profileData["activity_level"] = Str("very_active")
    /\ profileData["name"] = Txt(<<"r", "i", "c", "e", ",", " ", "b", "e", "a", "n", "s">>)
    /\ ~steps[4].completed

\* C13: in the diet-description step an answer is accepted (the step
\* completes) exactly when its trimmed text has at least 10 characters; an
\* answer of exactly 10 characters is accepted.
C13_TenCharactersAccepted ==
    InputShown("input")
    => \A raw \in DietInputs :
           (Len(Trim(raw)) >= 10)
           <=> ENABLED (InputBoxSubmit(raw) /\ steps'[currentStepIndex + 1].completed)

CompletionFired ==
    \/ inserts # <<>>
    \/ \E k \in 1..Len(timers) : timers[k].kind = "complete"

\* C14 as stated: when the completion action fires the cursor is beyond the
\* last step index (cursor = number of steps), and it fires at most once.
C14_CompletionBeyondLastStep ==
    /\ Len(inserts) <= 1
    /\ CompletionFired => currentStepIndex = Len(steps)

\* C14: when the completion action fires the cursor is at the last step index
\* (cursor = number of steps - 1) with every step completed, it stays there,
\* and the completion action fires at most once per session.
C14_CompletionAtLastStep ==
    /\ Len(inserts) <= 1
    /\ Cardinality({k \in 1..Len(timers) : timers[k].kind = "complete"}) + Len(inserts) <= 1
    /\ currentStepIndex < Len(steps)
    /\ CompletionFired
       => /\ currentStepIndex = Len(steps) - 1
          /\ \A i \in 1..Len(steps) : steps[i].completed

C14_Witness ==
    /\ Len(inserts) = 1
    /\ ~pendingInsert.pending
    /\ timers = <<>>
    /\ currentStepIndex = Len(steps) - 1
    /\ onCompleteCalls = 1

\* the questions the bot has asked, in transcript order
QuestionsAsked ==
    LET IsQuestion(m) == m.isBot /\ \E i \in 0..(Len(structuredSteps) - 1) : m.text = Question(i)
        asked == SelectSeq(messages, IsQuestion)
    IN  [k \in 1..Len(asked) |-> asked[k].text]

\* C15: the steps are answered strictly in the declared order height/weight,
\* activity level, diet description, equipment, dietary restrictions: the
\* cursor only ever changes by +1, the step answered is always the one at the
\* cursor and has not been answered before, and the question shown next is
\* the one the table declares after it, whatever the answers were.
C15_DeclaredOrder ==
    [][ /\ currentStepIndex' \in {currentStepIndex, currentStepIndex + 1}
        /\ steps' # steps
           => /\ ~steps[currentStepIndex + 1].completed
              /\ steps' = [steps EXCEPT ![currentStepIndex + 1].completed = TRUE]
              /\ \A j \in 1..currentStepIndex : steps[j].completed
              /\ DOMAIN profileData' =
                     {structuredSteps[j].field : j \in 1..(currentStepIndex + 1)}
        /\ currentStepIndex' # currentStepIndex
           => /\ steps[currentStepIndex + 1].completed
              /\ Last(messages').isBot
              /\ Last(messages').text = Question(currentStepIndex')
        /\ (/\ Len(messages') > Len(messages)
            /\ Last(messages').isBot
            /\ \E i \in 0..(Len(structuredSteps) - 1) : Last(messages').text = Question(i))
           => /\ Last(messages').text = Question(currentStepIndex')
              /\ Len(QuestionsAsked) = currentStepIndex'
      ]_vars

C15_Witness ==
    /\ currentStepIndex = Len(structuredSteps) - 1
    /\ \A i \in 1..Len(structuredSteps) : steps[i].completed
    /\ Len(QuestionsAsked) = Len(structuredSteps)
    /\ profileData["activity_level"] = Str("sedentary")
    /\ profileData["equipment"] = Arr(<<"cardio_machine", "resistance_bands">>)

\* C16: in every reachable state of the structured state the cursor
\* designates exactly one step of the sequence, every step with an index
\* below the cursor is marked completed, and every step with an index above
\* the cursor is not completed and has contributed no field to the draft.
C16_OneCurrentStep ==
    currentStep = "structured"
    => /\ currentStepIndex \in 0..(Len(steps) - 1)
       /\ \A i \in 1..Len(steps) :
              /\ i - 1 < currentStepIndex => steps[i].completed
              /\ i - 1 > currentStepIndex
                 => /\ ~steps[i].completed
                    /\ structuredSteps[i].field \notin DOMAIN profileData

C16_Witness ==
    /\ currentStep = "structured" /\ currentStepIndex = 2
    /\ steps[1].completed /\ steps[2].completed /\ steps[3].completed
    /\ ~steps[4].completed /\ ~steps[5].completed
    /\ DOMAIN profileData = {"height", "activity_level", "name"}
    /\ isLoading

\* C17: the progress percentage always equals round(100 x completed steps /
\* total steps) and never decreases from one state to the next (no completed
\* flag is ever reset), including after a failed completion insert.
C17_ProgressMonotone ==
    [][ /\ calculateProgress' =
               Nearest(100 * Cardinality({i \in 1..Len(steps') : steps'[i].completed}),
                       Len(steps'))
        /\ calculateProgress' >= calculateProgress
        /\ \A i \in 1..Len(steps) : steps[i].completed => steps'[i].completed
        /\ Len(steps') = Len(steps)
      ]_vars

C17_Witness ==
    /\ calculateProgress = 100
    /\ Last(messages).text = ApologyText
    /\ toast = "Error"
    /\ ~isLoading

Apologies == {k \in 1..Len(messages) : messages[k].text = ApologyText}

\* C18: when the completion insert fails, exactly one apologetic bot entry is
\* appended to the transcript, the insert is not issued again (the insert
\* count of the session stays 1), the completion signal onComplete is never
\* sent, and the processing indicator is cleared.
C18_FailedInsertNotRetried ==
    /\ (toast = "Error") <=> (Apologies # {})
    /\ Apologies # {}
       => /\ Apologies = {Len(messages)}
          /\ Last(messages).isBot
          /\ Len(inserts) = 1
          /\ ~pendingInsert.pending
          /\ onCompleteCalls = 0
          /\ timers = <<>>
          /\ ~isLoading

C18_Witness ==
    /\ Apologies # {}
    /\ Len(inserts) = 1
    /\ currentStepIndex = Len(steps) - 1
    /\ ~messages[Len(messages) - 1].isBot
    /\ onCompleteCalls = 0

(***************************************************************************)
(* Properties of the chat (checked under SpecChat and SpecChatLive)        *)
(***************************************************************************)
C19_Fallbacks ==
    [workout |-> <<"I'm having trouble accessing my full capabilities right now, but I can still help! For a quick workout, try: 3 sets of 10 push-ups, 3 sets of 15 squats, and a 30-second plank. Focus on proper form and controlled movements. What specific exercises are you interested in?">>,
     diet |-> <<"I'm experiencing some technical difficulties, but here's a quick nutrition tip: Focus on eating a balanced plate with 1/2 vegetables, 1/4 lean protein, and 1/4 complex carbohydrates. Drink plenty of water throughout the day. What are your specific nutrition goals?">>,
     motivation |-> <<"Even though I'm having some technical issues, remember this: every workout, no matter how small, is progress! You're investing in your health and future self. What's one small healthy choice you can make today?">>,
     general |-> <<"I'm experiencing some connectivity issues, but I'm still here to help with your fitness journey! Whether you need workout advice, nutrition tips, or motivation, I'm ready to assist. What would you like to focus on today?">>]

\* C19: when the remote coaching call has failed (transport error or upstream
\* error), the bot reply the chat appends for that message is the fixed
\* fallback string for the message's context, one of four strings keyed by
\* workout, diet, motivation and general.
C19_FallbackKeyedByContext ==
    [][ (/\ chatCall.failed
         /\ Len(chatHistory') = Len(chatHistory) + 1
         /\ ~Last(chatHistory').is_user)
        => Last(chatHistory').message = C19_Fallbacks[chatCall.context]
      ]_vars

\* C20: no exception escapes sendMessage, and every sendMessage that passed
\* its guards eventually returns the chat to the idle state (isLoading =
\* false) in which a new message can be sent, whether the remote call and
\* the chat-message inserts succeed or fail.
C20_ChatNeverStalls ==
    /\ []~chatEscaped
    /\ chatIsLoading ~> (~chatIsLoading /\ chatPc = "idle")

C20_Witness ==
    /\ chatSends = MaxSends
    /\ chatPc = "idle" /\ ~chatIsLoading
    /\ chatToast = "Response Error"
    /\ chatClears = 0
    /\ Len(chatHistory) = 1
    /\ chatHistory[1].message = ChatErrorText

(***************************************************************************)
(* Properties of the profile view (checked under SpecProfile)              *)
(***************************************************************************)
\* C21: a user's profile record is created once and afterwards only updated:
\* once a save of the user has succeeded, no onboarding completion and no
\* ProfileSetup save issues an insert again; every later save is an update.
C21_CreatedOnceThenUpdated ==
    [][ profileSaved
        => /\ Len(inserts') = Len(inserts)
           /\ (setupCall'.pending /\ ~setupCall.pending) => setupCall'.op = "update"
      ]_vars

\* C22: when the upstream model call fails after the request body was read,
\* the fitness-ai-chat function still answers with HTTP status 200 and a body
\* whose message is the fallback string for the request's context.
C22_HandlerAnswersFallback ==
    chatPc = "invoke"
    => \A gemini \in {"http_error", "network_error"} :
           LET response == serveHandler([message |-> chatCall.message,
                                         userId |-> Str(user.id),
                                         context |-> Str(chatCall.context)], gemini)
           IN  /\ response.status = 200
               /\ "message" \in DOMAIN response.body
               /\ response.body.message = C19_Fallbacks[chatCall.context]

\* C23: once the height/weight step is completed, the draft profile holds a
\* number in its height field and a number in its weight field; so does every
\* record handed to the profiles insert.
C23_HeightAndWeightAreNumbers ==
    LET Holds(draft) == /\ "height" \in DOMAIN draft
                        /\ IsNumber(draft["height"])
                        /\ "weight" \in DOMAIN draft
                        /\ IsNumber(draft["weight"])
    IN  /\ (currentStep = "structured" /\ steps[1].completed) => Holds(profileData)
        /\ \A i \in 1..Len(inserts) : Holds(inserts[i])

UserEntries == {k \in 1..Len(messages) : ~messages[k].isBot}

CompletedSteps == {i \in 1..Len(steps) : steps[i].completed}

\* C24: each step is submitted at most once per session. A submission is
\* accepted only for the step under the cursor, while it is not completed
\* and nothing is being processed; from then until the delayed transition has
\* run no user entry is appended, a completed step stays completed with its
\* stored value, and the transcript holds exactly one user entry per
\* completed step (beside those of the greeting phase).
C24_OneSubmissionPerStep ==
    /\ [](Cardinality(UserEntries) = greetingsSent + Cardinality(CompletedSteps))
    /\ [][ /\ (currentStep = "structured" /\ Len(messages') > Len(messages)
               /\ ~Last(messages').isBot)
              => /\ ~isLoading /\ isLoading'
                 /\ ~steps[currentStepIndex + 1].completed
                 /\ steps' = [steps EXCEPT ![currentStepIndex + 1].completed = TRUE]
           /\ (currentStep = "structured" /\ isLoading /\ isLoading')
              => UserEntries' = UserEntries
           /\ \A i \in CompletedSteps :
                  /\ steps'[i].completed
                  /\ profileData'[structuredSteps[i].field] = profileData[structuredSteps[i].field]
         ]_vars

\* all five steps were submitted and the transition of the last one has run
C24_Witness ==
    /\ Cardinality(CompletedSteps) = Len(structuredSteps)
    /\ Cardinality(UserEntries) = greetingsSent + Len(structuredSteps)
    /\ inserts # <<>>
    /\ ~pendingInsert.pending

\* the transcript positions of the user entries, in order
UserPositions ==
    LET pos == SelectSeq([k \in 1..Len(messages) |-> k], LAMBDA k : ~messages[k].isBot)
    IN  pos

\* C25: for every step that was answered, the step's question entry stands
\* in the transcript before the user's answer entry for that step (the
\* answers are the user entries after those of the greeting phase).
C25_QuestionBeforeAnswer ==
    \A i \in 1..(Len(UserPositions) - greetingsSent) :
        \E q \in 1..(UserPositions[greetingsSent + i] - 1) :
            /\ messages[q].isBot
            /\ messages[q].text = Question(i - 1)

\* C26: the entries of the onboarding transcript have pairwise distinct ids.
C26_DistinctIds ==
    \A i, j \in 1..Len(messages) : i # j => messages[i].id # messages[j].id

\* C27: for every chat send, the message list the edge function sends to the
\* model holds the user's current message exactly once, as its last entry,
\* preceded by at most 10 of the messages stored before this send, in
\* chronological order.  The function is invoked when the insert of the
\* user's row has returned; it reads the rows stored by then.
C27_CurrentMessageOnce ==
    [][ (chatPc = "addUser" /\ chatPc' = "invoke")
        => LET sent == geminiMessages(chatRows', chatCall'.message)
               earlier == conversationHistory(chatRows)
           IN  /\ Len(sent) = Len(earlier) + 1
               /\ Len(earlier) <= 10
               /\ sent[Len(sent)] = [role |-> "user", text |-> chatCall'.message]
               /\ \A k \in 1..Len(earlier) :
                      /\ sent[k].text = earlier[k].content
                      /\ sent[k].role = IF earlier[k].role = "assistant" THEN "model" ELSE "user"
      ]_vars

\* C28: a message that addMessage has appended to the local list stays in
\* the list until Clear Chat: no step other than a click on Clear Chat, the
\* completion of fetchMessages included, removes an entry of the list.
C28_AppendedMessagesStay ==
    [][ chatClears' = chatClears
        => \A k \in 1..Len(chatHistory) :
               \E j \in 1..Len(chatHistory') : chatHistory'[j] = chatHistory[k]
      ]_vars

\* C29: in the local chat message list every bot entry is directly preceded
\* by a user entry, whatever the interleaving of sendMessage with Clear Chat
\* (checked where every chat-message insert succeeds).
C29_BotEntryFollowsUserEntry ==
    \A k \in 1..Len(chatHistory) :
        ~chatHistory[k].is_user => (k > 1 /\ chatHistory[k - 1].is_user)

\* C30: every activity level that the draft profile or an inserted record
\* holds is one of the tiers of generateDietPlan's multiplier table, so that
\* it never gets the default multiplier.
C30_ActivityLevelIsATier ==
    LET IsTier(record) ==
            "activity_level" \in DOMAIN record
            => /\ record["activity_level"].t = "string"
               /\ record["activity_level"].s \in DOMAIN activityMultipliers
    IN  /\ IsTier(profileData)
        /\ \A i \in 1..Len(inserts) : IsTier(inserts[i])

====
